---- MODULE Spec2Model ----
(***************************************************************************)
(* Model of dss/stepfunctions/s3copyclient/implementation.py: a multipart  *)
(* S3 copy driven by a step function.  SetupCopyTask plans the parts and   *)
(* opens the multipart upload, a Parallel state runs one copy_worker       *)
(* branch per slice (each re-invoked until its output has finished=true),  *)
(* and the Finalizer (join) verifies the uploaded parts and completes the  *)
(* upload.                                                                 *)
(*                                                                         *)
(* Python dicts are functions from key strings; strings that matter        *)
(* (ETags) are sequences of integer tokens.                                *)
(***************************************************************************)
EXTENDS Integers, Sequences, FiniteSets, TLC

\* ---------------------------------------------------------------- bounds
\* Fan-out degree of the modelled Parallel state.  The source configures
\* LAMBDA_PARALLELIZATION_FACTOR branches; the orchestration is explored
\* with a smaller degree.
FanOut == 2
\* Largest source object (bytes) the Initializer is run on.
MaxSize == 5
\* Retry attempts the orchestration grants a failing state (the source's
\* retry_default grants 10; explored with a smaller budget).
RetryBudget == 1

\* Part size handed out by the chunking policy.
ChunkSize == 2

\* ------------------------------------------------------------- constants
LAMBDA_PARALLELIZATION_FACTOR == 32
CONCURRENT_REQUESTS == 8
\* Number of parameters of the completion callback (def callback():).
CallbackParams == 0
\* Number of arguments a Future passes to a done-callback (the future).
DoneCallbackArgs == 1

\* Tokens of the ETag strings.
Quote == 0
Dash == 1
HexBase == 100

Branches == 0 .. (FanOut - 1)

Min(a, b) == IF a <= b THEN a ELSE b

\* ------------------------------------------------------------ dict helpers
HasKey(d, k) == k \in DOMAIN d

Put(d, k, v) == [x \in (DOMAIN d) \cup {k} |-> IF x = k THEN v ELSE d[x]]

\* A value standing for "no dict" (a local that does not exist yet).
NoDict == [none |-> TRUE]

\* ------------------------------------------------------------ ETag strings
RECURSIVE LStrip(_)
LStrip(s) == IF s # <<>> /\ Head(s) = Quote THEN LStrip(Tail(s)) ELSE s

RECURSIVE RStrip(_)
RStrip(s) ==
    IF s # <<>> /\ s[Len(s)] = Quote THEN RStrip(SubSeq(s, 1, Len(s) - 1)) ELSE s

\* str.strip("\""): drop the leading and the trailing quote characters.
StripQuotes(s) == RStrip(LStrip(s))

Quoted(s) == <<Quote>> \o s \o <<Quote>>

\* Hex digest of the MD5 of part p of the unchanged source, as S3 reports it.
PartHex(p) == <<HexBase + p>>

\* binascii.unhexlify of a hex string, token by token.
Unhexlify(s) == [i \in 1 .. Len(s) |-> s[i] - HexBase]

\* binascii.hexlify, the inverse direction.
Hexlify(b) == [i \in 1 .. Len(b) |-> b[i] + HexBase]

RECURSIVE Join(_)
Join(ss) == IF ss = <<>> THEN <<>> ELSE Head(ss) \o Join(Tail(ss))

\* hashlib.md5(bytes).hexdigest(): an injective abstract hash, rendered in hex.
MD5Hex(bytes) == Hexlify(bytes)

\* The ETag S3 reports for the source object: the composite of its parts when
\* the object was uploaded in parts of ChunkSize, a plain digest otherwise.
SourceETag(kind, n) ==
    IF kind = "multipart"
    THEN Quoted(MD5Hex(Join([p \in 1 .. n |-> Unhexlify(PartHex(p))])) \o <<Dash, n>>)
    ELSE Quoted(<<HexBase>>)

\* ------------------------------------------------------------------ state
VARIABLES
    sfn,        \* current state of the step function sfn
    source,     \* the source object: size, how it was uploaded, mutated or not
    event,      \* the event SetupCopyTask received / returned
    uploaded,   \* part numbers present in the destination multipart upload
    committed,  \* Parts list passed to mpu.complete (<<>> while not committed)
    commits,    \* number of mpu.complete calls
    tpAttempts, \* retries consumed by the Threadpool state
    joinInput,  \* the Finalizer's event: the branch outputs
    pc,         \* per branch: position in threadpool_sfn
    input,      \* per branch: the event the next Worker invocation receives
    state,      \* per branch: the local `state` of run()
    saved,      \* per branch: the state held by TimedThread (save_state)
    queue,      \* per branch: parts of the deque not yet picked by the pool
    inflight,   \* per branch: parts whose copy_one_part is running
    done,       \* per branch: <<part, result>> of the copies that ended
    output,     \* per branch: what the last invocation returned
    outcome,    \* per branch: how the last invocation ended
    attempts,   \* per branch: retries consumed by the Worker state
    plan        \* the shard planner run on its own: part count, slices, ranges

jobvars == <<sfn, source, event, uploaded, committed, commits, tpAttempts, joinInput>>
brvars == <<pc, input, state, saved, queue, inflight, done, output, outcome, attempts>>
vars == <<jobvars, brvars, plan>>


\* ------------------------------------------------------ SetupCopyTask
\* get_s3_chunk_size(source_size): the part size of the chunking policy.
get_s3_chunk_size(source_size) == ChunkSize

\* PartCount without the round-up for a trailing short part.
PartCountNoRoundUp(source_size, part_size) == source_size \div part_size

\* PartCount that always adds a trailing part.
PartCountAlwaysRoundUp(source_size, part_size) == (source_size \div part_size) + 1

\* part_count as setup_copy_task computes it from the size and the part size.
PartCount(source_size, part_size) ==
    LET part_count == source_size \div part_size
    IN IF part_count * part_size < source_size THEN part_count + 1 ELSE part_count

\* setup_copy_task creating the multipart upload for a single part as well.
setup_copy_task_single_part_upload(ev, blobinfo) ==
    LET source_etag == StripQuotes(blobinfo.ETag)
        source_size == blobinfo.ContentLength
        part_size == get_s3_chunk_size(source_size)
        part_count == PartCount(source_size, part_size)
        upload_id == IF part_count >= 1 THEN "upload-1" ELSE "None"
    IN Put(Put(Put(Put(Put(Put(ev, "srcetag", source_etag), "uploadid", upload_id),
           "size", source_size), "partsz", part_size), "count", part_count),
           "finished", FALSE)

\* setup_copy_task handing out a state that is marked finished.
setup_copy_task_starts_finished(ev, blobinfo) ==
    LET source_etag == StripQuotes(blobinfo.ETag)
        source_size == blobinfo.ContentLength
        part_size == get_s3_chunk_size(source_size)
        part_count == PartCount(source_size, part_size)
        upload_id == IF part_count > 1 THEN "upload-1" ELSE "None"
    IN Put(Put(Put(Put(Put(Put(ev, "srcetag", source_etag), "uploadid", upload_id),
           "size", source_size), "partsz", part_size), "count", part_count),
           "finished", TRUE)

\* The event setup_copy_task returns for the input event ev and the blob
\* metadata blobinfo = [ETag, ContentLength].
setup_copy_task(ev, blobinfo) ==
    LET source_etag == StripQuotes(blobinfo.ETag)
        source_size == blobinfo.ContentLength
        part_size == get_s3_chunk_size(source_size)
        part_count == PartCount(source_size, part_size)
        upload_id == IF part_count > 1 THEN "upload-1" ELSE "None"
    IN Put(Put(Put(Put(Put(Put(ev, "srcetag", source_etag), "uploadid", upload_id),
           "size", source_size), "partsz", part_size), "count", part_count),
           "finished", FALSE)

\* s3_blobstore.get_all_metadata(source_bucket, source_key).
BlobInfo(src) ==
    [ETag |-> SourceETag(src.kind, PartCount(src.size, get_s3_chunk_size(src.size))),
     ContentLength |-> src.size]

\* ---------------------------------------------------- copy_worker / run
\* ShardRange with parts_per_branch rounded down instead of up.
ShardRangeRoundDown(part_count, slice_num, W) ==
    LET parts_per_branch == part_count \div W
        next == slice_num * parts_per_branch + 1
    IN [next |-> next, last |-> Min(part_count, next + parts_per_branch - 1)]

\* ShardRange with the last part one too far (next + parts_per_branch).
ShardRangeOffByOne(part_count, slice_num, W) ==
    LET parts_per_branch == (part_count + W - 1) \div W
        next == slice_num * parts_per_branch + 1
    IN [next |-> next, last |-> Min(part_count, next + parts_per_branch)]

\* The range run() computes when next/last are missing from the state, for
\* slice slice_num out of W slices.
ShardRange(part_count, slice_num, W) ==
    LET parts_per_branch == (part_count + W - 1) \div W
        next == slice_num * parts_per_branch + 1
    IN [next |-> next, last |-> Min(part_count, next + parts_per_branch - 1)]

\* The state after the first block of run(): the range is computed only when
\* next or last is missing.
WithRange(st, slice_num) ==
    IF ~HasKey(st, "next") \/ ~HasKey(st, "last")
    THEN LET r == ShardRange(st.count, slice_num, FanOut)
         IN Put(Put(st, "next", r.next), "last", r.last)
    ELSE st

\* S3BlobStore.find_next_missing_parts(bucket, key, upload_id, part_count,
\* search_start, return_count): the next return_count part numbers, from
\* search_start on and not beyond part_count, that the upload does not hold.
RECURSIVE FindMissingFrom(_, _, _, _, _)
FindMissingFrom(present, part_count, search_start, return_count, result) ==
    LET res == IF search_start \in present THEN result ELSE Append(result, search_start)
    IN IF Len(res) = return_count \/ search_start = part_count
       THEN res
       ELSE FindMissingFrom(present, part_count, search_start + 1, return_count, res)

find_next_missing_parts(present, part_count, search_start, return_count) ==
    FindMissingFrom(present, part_count, search_start, return_count, <<>>)

\* The callback body without its part_id >= next test.
callback_unguarded(st, sv, part_id) ==
    LET st2 == Put(st, "next", part_id + 1) IN <<st2, st2>>

\* Body of the completion callback of part_id, run under state_lock, on the
\* local state st and the saved state sv: <<state, saved>> afterwards.
callback(st, sv, part_id) ==
    IF part_id >= st.next
    THEN LET st2 == Put(st, "next", part_id + 1) IN <<st2, st2>>
    ELSE <<st, sv>>

\* A done-callback that runs and stores part_id + 1 under last instead of
\* next.
InvokeDoneCallbackWritesLast(st, sv, part_id) ==
    LET st2 == Put(st, "last", part_id + 1) IN <<st2, st2>>

\* The done-callback as it would run were it declared with the future as its
\* parameter: the body runs on every completion, failed or not.
InvokeDoneCallbackRunsBody(st, sv, part_id) == callback(st, sv, part_id)

\* As above, and without the part_id >= next guard of the body.
InvokeDoneCallbackUnguarded(st, sv, part_id) ==
    LET st2 == Put(st, "next", part_id + 1) IN <<st2, st2>>

\* What a finished Future does with the registered callback: it calls it with
\* one argument, itself.  A callback that does not take that many arguments
\* raises TypeError, which the Future logs and drops: its body does not run.
InvokeDoneCallback(st, sv, part_id) ==
    IF CallbackParams = DoneCallbackArgs THEN callback(st, sv, part_id) ELSE <<st, sv>>

\* calculate_range_for_part without the final end -= 1.
calculate_range_for_part_open(part_id, part_size, size) ==
    LET start == (part_id - 1) * part_size
        end == part_id * part_size
    IN <<start, IF end >= size THEN size ELSE end>>

\* CopyWorkerTimedThread.calculate_range_for_part(part_id): the inclusive
\* byte range <<start, end>> of a part, for the thread's part_size and size.
calculate_range_for_part(part_id, part_size, size) ==
    LET start == (part_id - 1) * part_size
        end == part_id * part_size
        end2 == IF end >= size THEN size ELSE end
    IN <<start, end2 - 1>>

\* copy_worker stripping the finished result of every slice, slice 0 included.
StripResultEverySlice(result, slice_num) ==
    IF result.finished THEN [finished |-> TRUE] ELSE result

\* What copy_worker returns for the TimedThread's result: a finished slice
\* other than 0 returns only the finished flag.
StripResult(result, slice_num) ==
    IF result.finished /\ slice_num # 0 THEN [finished |-> TRUE] ELSE result

\* A Choice state that ends the branch whatever the output.
BranchNextAlwaysEnds(out) == "EndThread"

\* The Choice state Branch{t}: where the branch goes with the worker's output.
BranchNext(out) == IF out.finished = TRUE THEN "EndThread" ELSE "Worker"

\* ------------------------------------------------------------------ join
RECURSIVE SortedSeq(_)
SortedSeq(S) ==
    IF S = {} THEN <<>>
    ELSE LET m == CHOOSE x \in S : \A y \in S : x <= y
         IN <<m>> \o SortedSeq(S \ {m})

\* list(mpu.parts.all()): the parts of the upload, in part-number order.
ListParts(present) ==
    LET ps == SortedSeq(present)
    IN [i \in 1 .. Len(ps) |-> [e_tag |-> Quoted(PartHex(ps[i])), part_number |-> ps[i]]]

\* parts_list numbered by list position from 0 instead of by part_number.
PartsListByIndex(parts) ==
    [i \in 1 .. Len(parts) |-> [ETag |-> parts[i].e_tag, PartNumber |-> i - 1]]

\* parts_list of join: the ETag and part number of every listed part.
PartsList(parts) ==
    [i \in 1 .. Len(parts) |-> [ETag |-> parts[i].e_tag, PartNumber |-> parts[i].part_number]]

\* The composite ETag without the "-" and the number of parts.
CompositeETagNoCount(parts) ==
    LET bin_md5 == Join([i \in 1 .. Len(parts) |-> Unhexlify(StripQuotes(parts[i].e_tag))])
    IN MD5Hex(bin_md5)

\* composite_etag of join: the hex MD5 of the concatenated binary part
\* digests, "-" and the number of parts.
CompositeETag(parts) ==
    LET bin_md5 == Join([i \in 1 .. Len(parts) |-> Unhexlify(StripQuotes(parts[i].e_tag))])
    IN MD5Hex(bin_md5) \o <<Dash, Len(parts)>>

\* join with the composite-ETag assertion left out.
JoinAssertsCountOnly(parts, st) == Len(parts) = st.count

\* The two assertions of join.
JoinAsserts(parts, st) ==
    /\ Len(parts) = st.count
    /\ CompositeETag(parts) = st.srcetag


\* ------------------------------------------------------------------ Init
InputEvent ==
    [srcbucket |-> "src-bucket", srckey |-> "src-key",
     dstbucket |-> "dst-bucket", dstkey |-> "dst-key"]

NoPlan == [count |-> 0, W |-> 0, ranges |-> <<>>]

IdleBranches ==
    /\ pc = [t \in Branches |-> "Idle"]
    /\ input = [t \in Branches |-> NoDict]
    /\ state = [t \in Branches |-> NoDict]
    /\ saved = [t \in Branches |-> NoDict]
    /\ queue = [t \in Branches |-> <<>>]
    /\ inflight = [t \in Branches |-> {}]
    /\ done = [t \in Branches |-> {}]
    /\ output = [t \in Branches |-> NoDict]
    /\ outcome = [t \in Branches |-> "none"]
    /\ attempts = [t \in Branches |-> 0]

Init ==
    /\ sfn = "SetupCopyTask"
    /\ source \in [size : 0 .. MaxSize, kind : {"multipart", "plain"}, changed : {FALSE}]
    /\ event = InputEvent
    /\ uploaded = {}
    /\ committed = <<>>
    /\ commits = 0
    /\ tpAttempts = 0
    /\ joinInput = <<>>
    /\ IdleBranches
    /\ plan = NoPlan

\* --------------------------------------------------------------- actions
\* State SetupCopyTask: run setup_copy_task and enter the Parallel state,
\* which starts every branch at Worker{t} with the Parallel state's input.
SetupCopyTask ==
    /\ sfn = "SetupCopyTask"
    /\ event' = setup_copy_task(event, BlobInfo(source))
    /\ sfn' = "Threadpool"
    /\ pc' = [t \in Branches |-> "Worker"]
    /\ input' = [t \in Branches |-> event']
    /\ UNCHANGED <<source, uploaded, committed, commits, tpAttempts, joinInput>>
    /\ UNCHANGED <<state, saved, queue, inflight, done, output, outcome, attempts>>
    /\ UNCHANGED plan

\* The source object is overwritten while the job runs: its ETag changes.
SourceMutates ==
    /\ sfn = "Threadpool"
    /\ ~source.changed
    /\ source' = [source EXCEPT !.changed = TRUE]
    /\ UNCHANGED <<sfn, event, uploaded, committed, commits, tpAttempts, joinInput>>
    /\ UNCHANGED brvars
    /\ UNCHANGED plan

\* WorkerInvoke without the early return of an empty range: the part at next
\* is queued whatever last is.
WorkerInvokeNoEarlyReturn(t) ==
    /\ sfn = "Threadpool"
    /\ pc[t] = "Worker"
    /\ LET st == WithRange(input[t], t)
       IN /\ state' = [state EXCEPT ![t] = st]
          /\ saved' = [saved EXCEPT ![t] = st]
          /\ queue' = [queue EXCEPT ![t] =
                 IF st.next > st.last THEN <<st.next>>
                 ELSE find_next_missing_parts(uploaded, st.count, st.next,
                                              st.last - st.next + 1)]
    /\ pc' = [pc EXCEPT ![t] = "Running"]
    /\ inflight' = [inflight EXCEPT ![t] = {}]
    /\ done' = [done EXCEPT ![t] = {}]
    /\ outcome' = [outcome EXCEPT ![t] = "none"]
    /\ attempts' = [attempts EXCEPT ![t] = 0]
    /\ UNCHANGED <<input, output>>
    /\ UNCHANGED jobvars
    /\ UNCHANGED plan

\* Worker{t} invokes copy_worker: the TimedThread is built from the event and
\* run() goes as far as building the deque of missing parts.
WorkerInvoke(t) ==
    /\ sfn = "Threadpool"
    /\ pc[t] = "Worker"
    /\ LET st == WithRange(input[t], t)
       IN /\ st.next > st.last \/ st.uploadid # "None"
          /\ state' = [state EXCEPT ![t] = st]
          /\ saved' = [saved EXCEPT ![t] = st]
          /\ queue' = [queue EXCEPT ![t] =
                 IF st.next > st.last THEN <<>>
                 ELSE find_next_missing_parts(uploaded, st.count, st.next,
                                              st.last - st.next + 1)]
    /\ pc' = [pc EXCEPT ![t] = "Running"]
    /\ inflight' = [inflight EXCEPT ![t] = {}]
    /\ done' = [done EXCEPT ![t] = {}]
    /\ outcome' = [outcome EXCEPT ![t] = "none"]
    /\ attempts' = [attempts EXCEPT ![t] = 0]
    /\ UNCHANGED <<input, output>>
    /\ UNCHANGED jobvars
    /\ UNCHANGED plan

\* StartCopy for an executor without a limit on its threads.
StartCopyUnbounded(t) ==
    /\ sfn = "Threadpool"
    /\ pc[t] = "Running"
    /\ queue[t] # <<>>
    /\ inflight' = [inflight EXCEPT ![t] = @ \cup {Head(queue[t])}]
    /\ queue' = [queue EXCEPT ![t] = Tail(@)]
    /\ UNCHANGED <<pc, input, state, saved, done, output, outcome, attempts>>
    /\ UNCHANGED jobvars
    /\ UNCHANGED plan

\* A pool thread of the executor takes the next part of the deque and starts
\* copy_one_part for it; the pool has CONCURRENT_REQUESTS threads.
StartCopy(t) ==
    /\ sfn = "Threadpool"
    /\ pc[t] = "Running"
    /\ queue[t] # <<>>
    /\ Cardinality(inflight[t]) < CONCURRENT_REQUESTS
    /\ inflight' = [inflight EXCEPT ![t] = @ \cup {Head(queue[t])}]
    /\ queue' = [queue EXCEPT ![t] = Tail(@)]
    /\ UNCHANGED <<pc, input, state, saved, done, output, outcome, attempts>>
    /\ UNCHANGED jobvars
    /\ UNCHANGED plan

\* Results upload_part_copy can have: it succeeds or fails transiently while
\* the source is unchanged; CopySourceIfMatch makes it fail once the source
\* has changed.
CopyResults == IF source.changed THEN {"precondition"} ELSE {"ok", "transient"}

\* copy_one_part(part_id) ends with result r and the Future runs its
\* done-callback.
CopyEnds(t, part_id, r) ==
    /\ sfn = "Threadpool"
    /\ pc[t] = "Running"
    /\ part_id \in inflight[t]
    /\ r \in CopyResults
    /\ uploaded' = IF r = "ok" THEN uploaded \cup {part_id} ELSE uploaded
    /\ inflight' = [inflight EXCEPT ![t] = @ \ {part_id}]
    /\ done' = [done EXCEPT ![t] = @ \cup {<<part_id, r>>}]
    /\ LET after == InvokeDoneCallback(state[t], saved[t], part_id)
       IN /\ state' = [state EXCEPT ![t] = after[1]]
          /\ saved' = [saved EXCEPT ![t] = after[2]]
    /\ UNCHANGED <<pc, input, queue, output, outcome, attempts>>
    /\ UNCHANGED <<sfn, source, event, committed, commits, tpAttempts, joinInput>>
    /\ UNCHANGED plan

\* One of the running copies of the invocation ends, with one of the results
\* it can have.
CopyDone(t) ==
    \E part_id \in inflight[t] : \E r \in CopyResults : CopyEnds(t, part_id, r)

\* run() leaves the executor block (every submitted copy has ended), sets
\* finished and returns; copy_worker strips the result.
WorkerReturn(t) ==
    /\ sfn = "Threadpool"
    /\ pc[t] = "Running"
    /\ queue[t] = <<>>
    /\ inflight[t] = {}
    /\ LET result == Put(state[t], "finished", TRUE)
       IN /\ state' = [state EXCEPT ![t] = result]
          /\ saved' = [saved EXCEPT ![t] = result]
          /\ output' = [output EXCEPT ![t] = StripResult(result, t)]
    /\ pc' = [pc EXCEPT ![t] = "Branch"]
    /\ outcome' = [outcome EXCEPT ![t] = "returned"]
    /\ UNCHANGED <<input, queue, inflight, done, attempts>>
    /\ UNCHANGED jobvars
    /\ UNCHANGED plan

\* WorkerTimeout that leaves the deque and the running copies to the pool.
WorkerTimeoutKeepsQueue(t) ==
    /\ sfn = "Threadpool"
    /\ pc[t] = "Running"
    /\ output' = [output EXCEPT ![t] = StripResult(saved[t], t)]
    /\ pc' = [pc EXCEPT ![t] = "Branch"]
    /\ outcome' = [outcome EXCEPT ![t] = "timeout"]
    /\ UNCHANGED attempts
    /\ UNCHANGED <<queue, inflight>>
    /\ UNCHANGED <<input, state, saved, done>>
    /\ UNCHANGED jobvars
    /\ UNCHANGED plan

\* The time budget of the invocation expires before run() has returned: the
\* TimedThread hands back the state saved last; copies still running are
\* abandoned.
WorkerTimeout(t) ==
    /\ sfn = "Threadpool"
    /\ pc[t] = "Running"
    /\ output' = [output EXCEPT ![t] = StripResult(saved[t], t)]
    /\ pc' = [pc EXCEPT ![t] = "Branch"]
    /\ outcome' = [outcome EXCEPT ![t] = "timeout"]
    /\ UNCHANGED attempts
    /\ queue' = [queue EXCEPT ![t] = <<>>]
    /\ inflight' = [inflight EXCEPT ![t] = {}]
    /\ UNCHANGED <<input, state, saved, done>>
    /\ UNCHANGED jobvars
    /\ UNCHANGED plan

\* The invocation raises: the part listing of run() fails (it always does
\* without an upload id).  Retry re-runs Worker{t} with the same input while
\* attempts remain; after that the branch fails.
WorkerRaise(t) ==
    /\ sfn = "Threadpool"
    /\ pc[t] = "Worker"
    /\ LET st == WithRange(input[t], t) IN st.next <= st.last
    /\ pc' = [pc EXCEPT ![t] = IF attempts[t] < RetryBudget THEN "Worker" ELSE "Failed"]
    /\ attempts' = [attempts EXCEPT ![t] = IF attempts[t] < RetryBudget THEN @ + 1 ELSE @]
    /\ outcome' = [outcome EXCEPT ![t] = "error"]
    /\ UNCHANGED <<input, state, saved, queue, inflight, done, output>>
    /\ UNCHANGED jobvars
    /\ UNCHANGED plan

\* Choice state Branch{t}: end the branch or run the worker again with the
\* output of the invocation.
BranchChoice(t) ==
    /\ sfn = "Threadpool"
    /\ pc[t] = "Branch"
    /\ pc' = [pc EXCEPT ![t] = BranchNext(output[t])]
    /\ input' = [input EXCEPT ![t] = IF BranchNext(output[t]) = "Worker" THEN output[t] ELSE @]
    /\ state' = [state EXCEPT ![t] = NoDict]
    /\ saved' = [saved EXCEPT ![t] = NoDict]
    /\ done' = [done EXCEPT ![t] = {}]
    /\ outcome' = [outcome EXCEPT ![t] = "none"]
    /\ UNCHANGED <<queue, inflight, output, attempts>>
    /\ UNCHANGED jobvars
    /\ UNCHANGED plan

\* The Parallel state ends when every branch has reached its end state; its
\* output, the list of the branch outputs, is the Finalizer's event.
AllBranchesEnded == \A t \in Branches : pc[t] = "EndThread"

ThreadpoolEnd ==
    /\ sfn = "Threadpool"
    /\ AllBranchesEnded
    /\ sfn' = "Finalizer"
    /\ joinInput' = [t \in Branches |-> output[t]]
    /\ UNCHANGED <<source, event, uploaded, committed, commits, tpAttempts>>
    /\ UNCHANGED brvars
    /\ UNCHANGED plan

\* A branch has failed: the Parallel state fails.  Its Retry runs it again
\* from its input (every branch restarts at Worker{t}) while attempts remain;
\* after that the execution fails.
ThreadpoolFail ==
    /\ sfn = "Threadpool"
    /\ \E t \in Branches : pc[t] = "Failed"
    /\ IF tpAttempts < RetryBudget
       THEN /\ tpAttempts' = tpAttempts + 1
            /\ sfn' = sfn
            /\ pc' = [t \in Branches |-> "Worker"]
            /\ input' = [t \in Branches |-> event]
            /\ attempts' = [t \in Branches |-> 0]
            /\ queue' = [t \in Branches |-> <<>>]
            /\ inflight' = [t \in Branches |-> {}]
            /\ state' = [t \in Branches |-> NoDict]
            /\ saved' = [t \in Branches |-> NoDict]
            /\ done' = [t \in Branches |-> {}]
            /\ output' = [t \in Branches |-> NoDict]
            /\ outcome' = [t \in Branches |-> "none"]
       ELSE /\ sfn' = "Failed"
            /\ UNCHANGED tpAttempts
            /\ UNCHANGED brvars
    /\ UNCHANGED <<source, event, uploaded, committed, commits, joinInput>>
    /\ UNCHANGED plan

\* A Finalizer that is run again after it has completed the upload.
FinalizerRunsAgain ==
    /\ sfn = "Finalizer"
    /\ LET st == joinInput[0]
           parts == ListParts(uploaded)
       IN IF st.uploadid # "None" /\ JoinAsserts(parts, st)
          THEN /\ committed' = PartsList(parts)
               /\ commits' = commits + 1
               /\ sfn' = "Finalizer"
          ELSE /\ sfn' = "Failed"
               /\ UNCHANGED <<committed, commits>>
    /\ UNCHANGED <<source, event, uploaded, tpAttempts, joinInput>>
    /\ UNCHANGED brvars
    /\ UNCHANGED plan

\* State Finalizer: join(event).  It lists the parts of the upload (which
\* fails without an upload id), asserts their number and composite ETag and
\* completes the upload; the state has no Retry, a failure ends the execution.
Finalizer ==
    /\ sfn = "Finalizer"
    /\ LET st == joinInput[0]
           parts == ListParts(uploaded)
       IN IF st.uploadid # "None" /\ JoinAsserts(parts, st)
          THEN /\ committed' = PartsList(parts)
               /\ commits' = commits + 1
               /\ sfn' = "Succeeded"
          ELSE /\ sfn' = "Failed"
               /\ UNCHANGED <<committed, commits>>
    /\ UNCHANGED <<source, event, uploaded, tpAttempts, joinInput>>
    /\ UNCHANGED brvars
    /\ UNCHANGED plan

Next ==
    \/ SetupCopyTask
    \/ SourceMutates
    \/ \E t \in Branches : WorkerInvoke(t)
    \/ \E t \in Branches : StartCopy(t)
    \/ \E t \in Branches : CopyDone(t)
    \/ \E t \in Branches : WorkerReturn(t)
    \/ \E t \in Branches : WorkerTimeout(t)
    \/ \E t \in Branches : WorkerRaise(t)
    \/ \E t \in Branches : BranchChoice(t)
    \/ ThreadpoolEnd
    \/ ThreadpoolFail
    \/ Finalizer

Spec == Init /\ [][Next]_vars


\* ------------------------------------------- the job under fair scheduling
\* The job as the end-to-end scenario runs it: a source that was uploaded in
\* parts of the chunking policy and that needs a multipart copy, no change of
\* the source, a part listing that works.  Part copies still fail
\* transiently and invocations still time out.
InitLive ==
    /\ Init
    /\ source.kind = "multipart"
    /\ source.size > ChunkSize

NextLive ==
    \/ SetupCopyTask
    \/ \E t \in Branches : WorkerInvoke(t)
    \/ \E t \in Branches : StartCopy(t)
    \/ \E t \in Branches : CopyDone(t)
    \/ \E t \in Branches : WorkerReturn(t)
    \/ \E t \in Branches : WorkerTimeout(t)
    \/ \E t \in Branches : BranchChoice(t)
    \/ ThreadpoolEnd
    \/ Finalizer

\* The orchestrator runs every state it has entered; an invocation that is
\* started again and again eventually runs to its return; a part copy that
\* is tried again and again eventually succeeds.
FairLive ==
    /\ WF_vars(SetupCopyTask)
    /\ WF_vars(ThreadpoolEnd)
    /\ WF_vars(Finalizer)
    /\ \A t \in Branches :
          /\ WF_vars(WorkerInvoke(t))
          /\ WF_vars(BranchChoice(t))
          /\ SF_vars(StartCopy(t))
          /\ SF_vars(\E part_id \in inflight[t] : CopyEnds(t, part_id, "ok"))
          /\ SF_vars(WorkerReturn(t))

SpecLive == InitLive /\ [][NextLive]_vars /\ FairLive

\* --------------------------------------------- the shard planner on its own
\* Largest part count and worker count the planner is run on (besides the
\* configured LAMBDA_PARALLELIZATION_FACTOR).
MaxPlanParts == 40
MaxPlanW == 6

WorkerCounts == (1 .. MaxPlanW) \cup {LAMBDA_PARALLELIZATION_FACTOR}

InitPlan ==
    /\ plan \in [count : 1 .. MaxPlanParts, W : WorkerCounts, ranges : {<<>>}]
    /\ sfn = "SetupCopyTask"
    /\ source = [size |-> 0, kind |-> "plain", changed |-> FALSE]
    /\ event = InputEvent
    /\ uploaded = {}
    /\ committed = <<>>
    /\ commits = 0
    /\ tpAttempts = 0
    /\ joinInput = <<>>
    /\ IdleBranches

\* The first invocation of the next slice (slice numbers start at 0)
\* computes its range.
PlanSlice ==
    /\ Len(plan.ranges) < plan.W
    /\ plan' = [plan EXCEPT !.ranges =
                   Append(@, ShardRange(plan.count, Len(plan.ranges), plan.W))]
    /\ UNCHANGED <<jobvars, brvars>>

NextPlan == PlanSlice

SpecPlan == InitPlan /\ [][NextPlan]_vars

\* ================================================================ claims
\* The range assigned to slice t of the running job.
AssignedRange(t) ==
    LET r == ShardRange(event.count, t, FanOut) IN r.next .. r.last

Listed == ListParts(uploaded)

\* C1: join completes the upload only if the number of listed parts equals
\* count and the composite ETag of the listed parts equals srcetag; in every
\* other case the Finalizer fails and nothing is committed.
C1_CommitOnlyIfVerified ==
    [][/\ (commits' # commits \/ committed' # committed) =>
             /\ sfn = "Finalizer"
             /\ Len(Listed) = joinInput[0].count
             /\ CompositeETag(Listed) = joinInput[0].srcetag
       /\ (sfn = "Finalizer" /\ sfn' # sfn
             /\ ~(Len(Listed) = joinInput[0].count
                  /\ CompositeETag(Listed) = joinInput[0].srcetag)) =>
             /\ sfn' = "Failed"
             /\ commits' = commits
             /\ committed' = committed]_vars

\* The Finalizer has failed on a complete upload whose composite ETag differs
\* from srcetag, and nothing was committed.
C1_Witness ==
    /\ sfn = "Failed"
    /\ joinInput # <<>>
    /\ joinInput[0].count > 1
    /\ Len(Listed) = joinInput[0].count
    /\ CompositeETag(Listed) # joinInput[0].srcetag
    /\ commits = 0

\* C2: the Finalizer starts only after every branch has ended with a worker
\* output whose finished flag is true.
C2_FinalizerAfterAllFinished ==
    (sfn \in {"Finalizer", "Succeeded"} \/ joinInput # <<>>) =>
        \A t \in Branches :
            /\ pc[t] = "EndThread"
            /\ output[t].finished = TRUE
            /\ joinInput[t].finished = TRUE

\* The Finalizer has started for a multipart job.
C2_Witness ==
    /\ sfn = "Finalizer"
    /\ joinInput[0].count > 1
    /\ \A t \in Branches : pc[t] = "EndThread"

\* A dict with a checkpoint says that every part of range below its next is
\* uploaded.
NextIsAcknowledged(d, range) ==
    HasKey(d, "next") => \A p \in range : p < d.next => p \in uploaded

\* C3: at every moment of an invocation and in every checkpoint saved or
\* returned, every part of the slice's range below next has been
\* acknowledged by S3 (is in the upload), whatever the order in which the
\* copies end.
C3_NextPartAcknowledged ==
    sfn # "SetupCopyTask" =>
        \A t \in Branches :
            /\ NextIsAcknowledged(state[t], AssignedRange(t))
            /\ NextIsAcknowledged(saved[t], AssignedRange(t))
            /\ NextIsAcknowledged(output[t], AssignedRange(t))
            /\ NextIsAcknowledged(input[t], AssignedRange(t))

\* A copy of a higher part has ended, without success, while the copy of a
\* lower part of the same invocation is still running.
C3_Witness ==
    \E t \in Branches :
        /\ pc[t] = "Running"
        /\ HasKey(saved[t], "next")
        /\ \E d \in done[t] : \E q \in inflight[t] :
              /\ q < d[1]
              /\ d[2] # "ok"
              /\ d[1] \notin uploaded

\* C4: whenever a worker returns finished = true, every part of the slice's
\* range is in the upload.
C4_FinishedMeansRangePresent ==
    \A t \in Branches :
        (pc[t] = "Branch" /\ output[t].finished = TRUE) =>
            AssignedRange(t) \subseteq uploaded

\* C5: whenever an invocation returns finished = true, the state run()
\* returned has next > last.
C5_FinishedMeansExhausted ==
    \A t \in Branches :
        (pc[t] = "Branch" /\ output[t].finished = TRUE) =>
            state[t].next > state[t].last

\* C6: with fair re-invocation and part copies that eventually succeed, the
\* job reaches the Finalizer, which commits a part list of count entries.
C6_EventuallyCommitted ==
    <>(sfn = "Succeeded" /\ commits = 1 /\ Len(committed) = event.count)

\* C7: the completion of a failed copy leaves next of the local state and
\* the saved checkpoint as they were.
C7_FailureDoesNotAdvance ==
    [][\A t \in Branches :
          (\E d \in done'[t] \ done[t] : d[2] # "ok") =>
              /\ state'[t].next = state[t].next
              /\ saved'[t] = saved[t]]_vars

\* A copy has failed in a running invocation and the saved checkpoint does
\* not lie beyond the failed part.
C7_Witness ==
    \E t \in Branches :
        /\ pc[t] = "Running"
        /\ \E d \in done[t] :
              /\ d[2] = "transient"
              /\ saved[t].next <= d[1]
              /\ state[t].next <= d[1]

\* C8: an invocation in which a copy failed its CopySourceIfMatch
\* precondition ends in an error, not in a returned state.
C8_PreconditionFailureIsError ==
    \A t \in Branches :
        (pc[t] = "Branch" /\ \E d \in done[t] : d[2] = "precondition") =>
            outcome[t] = "error"

NextNotBelow(a, b) ==
    (HasKey(a, "next") /\ HasKey(b, "next")) => b.next >= a.next

\* C9: next of a slice never decreases, neither from one completion to the
\* next within an invocation nor from one invocation to the re-invocation
\* that starts from its output.
C9_NextNeverDecreases ==
    [][\A t \in Branches :
          /\ NextNotBelow(state[t], state'[t])
          /\ NextNotBelow(saved[t], saved'[t])
          /\ NextNotBelow(input[t], input'[t])
          /\ NextNotBelow(input[t], state'[t])
          /\ NextNotBelow(saved[t], output'[t])
          /\ NextNotBelow(output[t], input'[t])]_vars

\* A re-invocation from a returned checkpoint in which the copy of a higher
\* part has ended before the copy of a lower part.
C9_Witness ==
    \E t \in Branches :
        /\ pc[t] = "Running"
        /\ HasKey(input[t], "next")
        /\ \E d \in done[t] : \E q \in inflight[t] : q < d[1]

RangeSet(r) == r.next .. r.last

PlanComplete == plan.W > 0 /\ Len(plan.ranges) = plan.W

\* C10: the ranges computed on first invocation for the slices 0..W-1 are
\* pairwise disjoint and their union is 1..part_count (next > last is the
\* empty range).
C10_RangesPartition ==
    PlanComplete =>
        /\ \A i, j \in 1 .. plan.W :
              i # j => RangeSet(plan.ranges[i]) \cap RangeSet(plan.ranges[j]) = {}
        /\ UNION {RangeSet(plan.ranges[i]) : i \in 1 .. plan.W} = 1 .. plan.count

\* A complete plan for more parts than slices that still has an empty range
\* and a last range shorter than the others.
C10_Witness ==
    /\ PlanComplete
    /\ plan.count > plan.W
    /\ \E i \in 1 .. plan.W : plan.ranges[i].next > plan.ranges[i].last
    /\ \E i \in 1 .. plan.W :
          /\ plan.ranges[i].next <= plan.ranges[i].last
          /\ plan.ranges[i].last - plan.ranges[i].next < plan.ranges[1].last - plan.ranges[1].next


\* ------------------------------------------- the part plan on its own
\* Largest object size and part size the part-count computation and the
\* byte-range computation are run on.
MaxPlanBytes == 24
MaxPlanPartSize == 6

\* Everything but plan, at rest.
JobIdle ==
    /\ sfn = "SetupCopyTask"
    /\ source = [size |-> 0, kind |-> "plain", changed |-> FALSE]
    /\ event = InputEvent
    /\ uploaded = {}
    /\ committed = <<>>
    /\ commits = 0
    /\ tpAttempts = 0
    /\ joinInput = <<>>
    /\ IdleBranches

InitChunk ==
    /\ plan \in [size : 0 .. MaxPlanBytes, partsz : 1 .. MaxPlanPartSize, count : {-1}]
    /\ JobIdle

\* setup_copy_task computes part_count for the size and the part size.
ChunkPlan ==
    /\ plan.count = -1
    /\ plan' = [plan EXCEPT !.count = PartCount(plan.size, plan.partsz)]
    /\ UNCHANGED <<jobvars, brvars>>

NextChunk == ChunkPlan

SpecChunk == InitChunk /\ [][NextChunk]_vars

InitBytes ==
    /\ plan \in [size : 1 .. MaxPlanBytes, partsz : 1 .. MaxPlanPartSize, byteranges : {<<>>}]
    /\ JobIdle

\* copy_one_part computes the byte range of the next part (parts are copied
\* for the part numbers 1..part_count).
BytesPart ==
    /\ Len(plan.byteranges) < PartCount(plan.size, plan.partsz)
    /\ plan' = [plan EXCEPT !.byteranges =
                   Append(@, calculate_range_for_part(Len(plan.byteranges) + 1,
                                                      plan.partsz, plan.size))]
    /\ UNCHANGED <<jobvars, brvars>>

NextBytes == BytesPart

SpecBytes == InitBytes /\ [][NextBytes]_vars

\* ------------------------------------- the composite ETag on its own
\* Number of distinct part digests and longest part listing join is run on.
MaxDigest == 2
MaxListing == 3

\* The sequences of 1..MaxListing binary part digests.
DigestSeqs == UNION {[1 .. n -> 1 .. MaxDigest] : n \in 1 .. MaxListing}

\* list(mpu.parts.all()) for an upload whose parts have the digests ds: S3
\* reports each ETag as the quoted hex digest.
ListingOf(ds) ==
    [i \in 1 .. Len(ds) |-> [e_tag |-> Quoted(Hexlify(<<ds[i]>>)), part_number |-> i]]

\* The srcetag setup_copy_task stores for a source uploaded in parts with
\* the digests ds: S3's composite ETag, stripped of its quotes.
SourceETagOf(ds) == StripQuotes(Quoted(MD5Hex(ds) \o <<Dash, Len(ds)>>))

InitEtag ==
    /\ plan \in [listing : DigestSeqs, reference : DigestSeqs,
                 composite : {<<>>}, accepted : {"unchecked"}]
    /\ JobIdle

\* join on a listing with the digests plan.listing, for a source whose parts
\* have the digests plan.reference.
JoinCheck ==
    /\ plan.accepted = "unchecked"
    /\ LET parts == ListingOf(plan.listing)
           st == [count |-> Len(plan.reference), srcetag |-> SourceETagOf(plan.reference)]
       IN plan' = [plan EXCEPT !.composite = CompositeETag(parts),
                               !.accepted = IF JoinAsserts(parts, st) THEN "yes" ELSE "no"]
    /\ UNCHANGED <<jobvars, brvars>>

NextEtag == JoinCheck

SpecEtag == InitEtag /\ [][NextEtag]_vars

\* ------------------------------------ the executor of one invocation
\* Largest number of parts per slice the executor is run on.
MaxPoolParts == 10

\* The event of a job whose LAMBDA_PARALLELIZATION_FACTOR slices have n parts
\* each.
PoolSource(n) ==
    [size |-> LAMBDA_PARALLELIZATION_FACTOR * n * ChunkSize, kind |-> "plain",
     changed |-> FALSE]

PoolEvent(n) == setup_copy_task(InputEvent, BlobInfo(PoolSource(n)))

\* The first invocation of slice 0 of such a job, as run() has built the
\* deque of its n missing parts; the other branches are not looked at.
InitPool ==
    \E n \in 1 .. MaxPoolParts :
        LET st == Put(Put(PoolEvent(n), "next", 1), "last", n)
        IN /\ sfn = "Threadpool"
           /\ source = PoolSource(n)
           /\ event = PoolEvent(n)
           /\ uploaded = {}
           /\ committed = <<>>
           /\ commits = 0
           /\ tpAttempts = 0
           /\ joinInput = <<>>
           /\ pc = [t \in Branches |-> IF t = 0 THEN "Running" ELSE "Idle"]
           /\ input = [t \in Branches |-> IF t = 0 THEN PoolEvent(n) ELSE NoDict]
           /\ state = [t \in Branches |-> IF t = 0 THEN st ELSE NoDict]
           /\ saved = [t \in Branches |-> IF t = 0 THEN st ELSE NoDict]
           /\ queue = [t \in Branches |->
                          IF t = 0
                          THEN find_next_missing_parts({}, st.count, st.next,
                                                       st.last - st.next + 1)
                          ELSE <<>>]
           /\ inflight = [t \in Branches |-> {}]
           /\ done = [t \in Branches |-> {}]
           /\ output = [t \in Branches |-> NoDict]
           /\ outcome = [t \in Branches |-> "none"]
           /\ attempts = [t \in Branches |-> 0]
           /\ plan = NoPlan

NextPool ==
    \/ \E t \in Branches : StartCopy(t)
    \/ \E t \in Branches : CopyDone(t)

SpecPool == InitPool /\ [][NextPool]_vars

\* ------------------------------------- the callback body on its own
\* Largest part number the callback body is run on.
MaxCallbackPart == 5

\* An invocation that starts at next = n has submitted the parts of pending,
\* none of them below n; the saved state is the local state.
InitCallback ==
    /\ \E n \in 1 .. MaxCallbackPart :
       \E S \in (SUBSET (n .. MaxCallbackPart)) \ {{}} :
           plan = [st |-> [next |-> n], sv |-> [next |-> n], pending |-> S,
                   part |-> 0, before |-> <<[next |-> n], [next |-> n]>>]
    /\ JobIdle

\* The body of callback runs for a submitted part, under state_lock; the
\* parts complete in any order.
CallbackBody ==
    \E part_id \in plan.pending :
        /\ LET after == callback(plan.st, plan.sv, part_id)
           IN plan' = [st |-> after[1], sv |-> after[2],
                       pending |-> plan.pending \ {part_id},
                       part |-> part_id, before |-> <<plan.st, plan.sv>>]
        /\ UNCHANGED <<jobvars, brvars>>

NextCallback == CallbackBody

SpecCallback == InitCallback /\ [][NextCallback]_vars

\* C11 (as claimed): exactly min(W, part_count) of the W slices get a
\* non-empty range; every slice is non-empty unless part_count < W.
NonEmptySlices == {i \in 1 .. plan.W : plan.ranges[i].next <= plan.ranges[i].last}

C11_MinWNonEmpty ==
    PlanComplete =>
        /\ Cardinality(NonEmptySlices) = Min(plan.W, plan.count)
        /\ plan.count >= plan.W => NonEmptySlices = 1 .. plan.W

CeilDiv(a, b) == (a + b - 1) \div b

\* C11 (amended): the non-empty slices are the first
\* ceil(part_count / ceil(part_count / W)) ones, which is at most
\* min(W, part_count) and equals it when part_count <= W or W divides
\* part_count.
C11_LeadingSlicesNonEmpty ==
    PlanComplete =>
        LET n == CeilDiv(plan.count, CeilDiv(plan.count, plan.W))
        IN /\ NonEmptySlices = 1 .. n
           /\ n <= Min(plan.W, plan.count)
           /\ (plan.count <= plan.W \/ plan.count % plan.W = 0) =>
                  n = Min(plan.W, plan.count)

\* A complete plan with at least as many parts as slices in which fewer than
\* W slices have parts.
C11_Witness ==
    /\ PlanComplete
    /\ plan.count >= plan.W
    /\ Cardinality(NonEmptySlices) < plan.W

ChunkDone == plan.count # -1

\* C12: part_count = ceil(size / part_size): part_count parts cover the
\* size, part_count - 1 parts do not, and an exact multiple has no trailing
\* part.
C12_PartCountIsCeiling ==
    ChunkDone =>
        /\ plan.count * plan.partsz >= plan.size
        /\ (plan.count - 1) * plan.partsz < plan.size
        /\ plan.size % plan.partsz = 0 => plan.count = plan.size \div plan.partsz

\* A size that is not a multiple of the part size, planned in several parts.
C12_Witness ==
    /\ ChunkDone
    /\ plan.size % plan.partsz # 0
    /\ plan.count > 1
    /\ plan.count = (plan.size \div plan.partsz) + 1

\* C13 (as claimed): a size of 0 or of at most one part gives part_count = 1.
C13_SmallIsOnePart ==
    (ChunkDone /\ plan.size <= plan.partsz) => plan.count = 1

\* C13 (amended): a size of 1..part_size gives part_count = 1; a size of 0
\* gives part_count = 0.
C13_SmallIsOnePartEmptyIsNone ==
    /\ (ChunkDone /\ 0 < plan.size /\ plan.size <= plan.partsz) => plan.count = 1
    /\ (ChunkDone /\ plan.size = 0) => plan.count = 0

\* A planned object of exactly one part size, and a planned empty object.
C13_Witness ==
    /\ ChunkDone
    /\ \/ plan.size = plan.partsz /\ plan.count = 1
       \/ plan.size = 0 /\ plan.count = 0

BytesDone ==
    Len(plan.byteranges) = PartCount(plan.size, plan.partsz)

ByteSet(r) == r[1] .. r[2]

\* C15: the byte ranges of the parts 1..part_count are
\* [(p-1)*part_size, min(p*part_size, size) - 1], non-empty, pairwise
\* disjoint, contiguous in part order, and cover exactly 0..size-1.
C15_ByteRangesPartition ==
    BytesDone =>
        LET n == Len(plan.byteranges)
            r == plan.byteranges
        IN /\ \A p \in 1 .. n :
                 /\ r[p][1] = (p - 1) * plan.partsz
                 /\ r[p][2] = Min(p * plan.partsz, plan.size) - 1
                 /\ r[p][1] <= r[p][2]
           /\ \A p \in 1 .. n - 1 : r[p + 1][1] = r[p][2] + 1
           /\ \A p, q \in 1 .. n : p # q => ByteSet(r[p]) \cap ByteSet(r[q]) = {}
           /\ UNION {ByteSet(r[p]) : p \in 1 .. n} = 0 .. plan.size - 1

\* All byte ranges of an object of several parts whose last part is short.
C15_Witness ==
    /\ BytesDone
    /\ Len(plan.byteranges) >= 3
    /\ plan.size % plan.partsz # 0
    /\ plan.byteranges[Len(plan.byteranges)][2] = plan.size - 1


\* C14: setup_copy_task creates a multipart upload, and records its id,
\* exactly when part_count > 1, records no upload id otherwise, and returns
\* the state with finished = false.
C14_UploadIffSeveralParts ==
    sfn # "SetupCopyTask" =>
        /\ event.uploadid # "None" <=> event.count > 1
        /\ event.count <= 1 => event.uploadid = "None"
        /\ event.finished = FALSE
        /\ event.count = PartCount(source.size, event.partsz)

\* The state of an object of exactly two parts, with an upload id, handed to
\* the branches.
C14_Witness ==
    /\ sfn = "Threadpool"
    /\ event.count = 2
    /\ event.uploadid # "None"
    /\ event.finished = FALSE
    /\ \A t \in Branches : pc[t] = "Worker" /\ input[t] = event

\* The keys of the state setup_copy_task produces, finished aside.
FullStateKeys ==
    {"srcbucket", "srckey", "dstbucket", "dstkey",
     "srcetag", "uploadid", "size", "partsz", "count"}

\* The result of the TimedThread of the invocation that has just ended.
ThreadResult(t) == IF outcome[t] = "returned" THEN state[t] ELSE saved[t]

\* C16: copy_worker returns only {finished: true} exactly when the result
\* is finished and the slice is not 0, the full result otherwise; so element
\* 0 of the Finalizer's input has every key of the state setup_copy_task
\* produced, with its value.
C16_OnlySliceZeroKeepsState ==
    /\ \A t \in Branches :
          pc[t] = "Branch" =>
              /\ output[t] = [finished |-> TRUE] <=>
                     (ThreadResult(t).finished /\ t # 0)
              /\ output[t] # [finished |-> TRUE] => output[t] = ThreadResult(t)
    /\ joinInput # <<>> =>
          \A k \in FullStateKeys :
              HasKey(joinInput[0], k) /\ joinInput[0][k] = event[k]

\* The Finalizer is entered with the full state from slice 0 and the bare
\* finished flag from slice 1.
C16_Witness ==
    /\ sfn = "Finalizer"
    /\ joinInput[1] = [finished |-> TRUE]
    /\ joinInput[0].finished = TRUE
    /\ joinInput[0].uploadid = event.uploadid
    /\ joinInput[0].uploadid # "None"

\* C17: an invocation whose time budget expires returns the state saved
\* last, with its next and last and with finished = false, so that the
\* Choice state runs the worker again.
C17_TimeoutReturnsCheckpoint ==
    [][\A t \in Branches :
          (pc[t] = "Running" /\ pc'[t] = "Branch" /\ outcome'[t] = "timeout") =>
              /\ output'[t] = saved[t]
              /\ HasKey(output'[t], "next") /\ HasKey(output'[t], "last")
              /\ output'[t].finished = FALSE
              /\ BranchNext(output'[t]) = "Worker"]_vars

\* An invocation has timed out after a part of its range was uploaded and
\* while a part of its range is still missing.
C17_Witness ==
    \E t \in Branches :
        /\ pc[t] = "Branch"
        /\ outcome[t] = "timeout"
        /\ output[t].finished = FALSE
        /\ \E p, q \in output[t].next .. output[t].last :
              p \in uploaded /\ q \notin uploaded

\* C18: while the Parallel state runs the branch, the Choice state sends a
\* result with finished = false back to the worker with exactly that result
\* as input, the worker's retries keep that input, the invocation starts from
\* it, and the branch reaches its end state only from a result with
\* finished = true.
C18_ReinvokedWithLastState ==
    [][\A t \in Branches :
          tpAttempts' = tpAttempts =>
              /\ (pc[t] = "Branch" /\ pc'[t] # "Branch") =>
                     IF output[t].finished = TRUE
                     THEN pc'[t] = "EndThread"
                     ELSE pc'[t] = "Worker" /\ input'[t] = output[t]
              /\ pc[t] = "Worker" => input'[t] = input[t]
              /\ (pc[t] = "Worker" /\ pc'[t] = "Running") =>
                     state'[t] = WithRange(input[t], t)
              /\ (pc[t] # "EndThread" /\ pc'[t] = "EndThread") =>
                     pc[t] = "Branch" /\ output[t].finished = TRUE]_vars

\* The worker runs again on the state a timed-out invocation returned.
C18_Witness ==
    \E t \in Branches :
        /\ pc[t] = "Running"
        /\ input[t] = output[t]
        /\ output[t].finished = FALSE
        /\ state[t] = output[t]

\* C19: the part list handed to complete() has one entry for each part
\* number 1..part_count, in ascending order, and nothing else.
C19_CommittedListIsAllParts ==
    commits > 0 =>
        /\ Len(committed) = event.count
        /\ \A i \in 1 .. Len(committed) : committed[i].PartNumber = i

\* A multipart upload completed with its list of parts.
C19_Witness ==
    /\ sfn = "Succeeded"
    /\ commits = 1
    /\ Len(committed) >= 2
    /\ committed[Len(committed)].PartNumber = event.count


\* C20: the composite ETag of a listing with digests h1..hn is
\* H(h1 .. hn), "-" and n; join accepts exactly when it equals srcetag,
\* which is exactly when the listing has the digests of the source's parts,
\* in their order and number.
C20_CompositeAcceptsOnlyTheSource ==
    plan.accepted # "unchecked" =>
        /\ plan.composite = MD5Hex(plan.listing) \o <<Dash, Len(plan.listing)>>
        /\ plan.composite = SourceETagOf(plan.reference) <=> plan.listing = plan.reference
        /\ plan.accepted = "yes" <=> plan.listing = plan.reference

\* A listing of several parts with different digests is accepted.
C20_Witness ==
    /\ plan.accepted = "yes"
    /\ Len(plan.listing) >= 2
    /\ \E i, j \in 1 .. Len(plan.listing) : plan.listing[i] # plan.listing[j]


\* The range of slice t of a job of part_count parts, written out.
FirstOfSlice(part_count, t) == t * CeilDiv(part_count, FanOut) + 1
LastOfSlice(part_count, t) ==
    Min(part_count, FirstOfSlice(part_count, t) + CeilDiv(part_count, FanOut) - 1)

\* C21: an invocation whose input lacks next or last computes the slice's
\* range and saves it before anything is listed or copied; an invocation
\* whose input has both starts from the input as it is; and computing the
\* range again gives the same range.
C21_RangeComputedOnceAndSaved ==
    [][\A t \in Branches :
          (pc[t] = "Worker" /\ pc'[t] = "Running") =>
              /\ saved'[t] = state'[t]
              /\ inflight'[t] = {} /\ done'[t] = {}
              /\ IF HasKey(input[t], "next") /\ HasKey(input[t], "last")
                 THEN state'[t] = input[t]
                 ELSE /\ state'[t].next = FirstOfSlice(input[t].count, t)
                      /\ state'[t].last = LastOfSlice(input[t].count, t)
                      /\ \A k \in DOMAIN input[t] : state'[t][k] = input[t][k]
              /\ WithRange(state'[t], t) = state'[t]
              /\ ShardRange(state'[t].count, t, FanOut) =
                     [next |-> FirstOfSlice(state'[t].count, t),
                      last |-> LastOfSlice(state'[t].count, t)]]_vars

\* Slice 1 runs a later invocation, on an input that has its range, with a
\* part to copy.
C21_Witness ==
    /\ pc[1] = "Running"
    /\ HasKey(input[1], "next") /\ HasKey(input[1], "last")
    /\ saved[1] = input[1]
    /\ queue[1] # <<>>

\* The dicts of branch t that hold a full state.
FullStates(t) ==
    {d \in {input[t], state[t], saved[t], output[t]} : HasKey(d, "count")}

\* C22: a worker changes nothing but next and finished: after every step,
\* every full state of a branch has the values of setup_copy_task under
\* every other key, and its last, once set, is the last of the slice and
\* stays.
C22_OnlyNextAndFinishedChange ==
    [][\A t \in Branches :
          /\ \A d \in FullStates(t)' :
                /\ \A k \in FullStateKeys : d[k] = event'[k]
                /\ DOMAIN d \subseteq FullStateKeys \cup {"next", "last", "finished"}
                /\ HasKey(d, "last") => d.last = LastOfSlice(event'.count, t)
          /\ (HasKey(saved[t], "last") /\ HasKey(saved'[t], "last")) =>
                 saved'[t].last = saved[t].last]_vars

\* Slice 0 has returned its full state, finished, after a later invocation
\* in which a part was uploaded.
C22_Witness ==
    /\ pc[0] = "Branch"
    /\ outcome[0] = "returned"
    /\ HasKey(input[0], "last")
    /\ output[0].last = input[0].last
    /\ output[0].finished = TRUE
    /\ \E d \in done[0] : d[2] = "ok"

\* C23: an invocation that starts with next > last lists nothing and copies
\* nothing, and returns finished = true with next and last as they were.
C23_EmptyRangeFinishesAtOnce ==
    [][\A t \in Branches :
          /\ (pc[t] = "Worker" /\ pc'[t] = "Running"
                /\ state'[t].next > state'[t].last) =>
                 queue'[t] = <<>> /\ uploaded' = uploaded
          /\ (pc[t] = "Running" /\ state[t].next > state[t].last) =>
                 /\ queue[t] = <<>> /\ inflight[t] = {} /\ done[t] = {}
                 /\ queue'[t] = <<>> /\ inflight'[t] = {} /\ done'[t] = {}
          /\ (pc[t] = "Running" /\ state[t].next > state[t].last
                /\ pc'[t] = "Branch" /\ outcome'[t] = "returned") =>
                 /\ output'[t].finished = TRUE
                 /\ state'[t] = Put(state[t], "finished", TRUE)]_vars

\* A slice without parts of a job without an upload id has returned
\* finished.
C23_Witness ==
    \E t \in Branches :
        /\ pc[t] = "Branch"
        /\ outcome[t] = "returned"
        /\ state[t].next > state[t].last
        /\ state[t].uploadid = "None"
        /\ output[t].finished = TRUE


\* The parts an invocation of branch t has queued, is copying or has copied.
Submitted(t) ==
    {queue[t][i] : i \in 1 .. Len(queue[t])} \cup inflight[t] \cup {d[1] : d \in done[t]}

\* C24: every part an invocation submits lies in the range [next, last] of
\* its slice, so no part is copied by two slices and none lies outside
\* 1..part_count.
C24_CopiesInsideOwnRange ==
    \A t \in Branches :
        pc[t] = "Running" =>
            \A p \in Submitted(t) :
                /\ state[t].next <= p /\ p <= state[t].last
                /\ p \in 1 .. state[t].count
                /\ \A u \in Branches \ {t} :
                      pc[u] = "Running" => p \notin Submitted(u)


\* C25: an invocation has at most CONCURRENT_REQUESTS copies running at any
\* time, however many parts it has queued.
C25_AtMostPoolSizeInFlight ==
    \A t \in Branches : Cardinality(inflight[t]) <= CONCURRENT_REQUESTS

\* The pool is full while parts are still queued.
C25_Witness ==
    \E t \in Branches :
        /\ Cardinality(inflight[t]) = CONCURRENT_REQUESTS
        /\ queue[t] # <<>>


C27_StaleCompletionIsNoOp ==
    (plan.part # 0 /\ plan.part < plan.before[1].next) =>
        /\ plan.st = plan.before[1]
        /\ plan.sv = plan.before[2]

\* The body has run for a part after it had run for a higher part.
C27_Witness ==
    /\ plan.part # 0
    /\ plan.part < plan.before[1].next
    /\ plan.st.next > plan.part + 1


\* C28: the upload is completed at most once, by the Finalizer only, which
\* then ends the execution; a Finalizer whose checks fail ends the execution
\* in failure, and nothing runs after the execution has ended.
C28_CommitOnceInFinalizerOnly ==
    [][/\ commits' <= 1
       /\ commits' # commits =>
              sfn = "Finalizer" /\ sfn' = "Succeeded" /\ commits' = commits + 1
       /\ committed' # committed => commits' # commits
       /\ sfn = "Finalizer" => sfn' \in {"Succeeded", "Failed"}
       /\ (sfn = "Finalizer" /\ sfn' = "Failed") => UNCHANGED <<commits, brvars, uploaded>>
       /\ sfn \notin {"Succeeded", "Failed"}]_vars

\* The Finalizer has failed its count check: the execution has failed and
\* nothing was completed.
C28_Witness ==
    /\ sfn = "Failed"
    /\ joinInput # <<>>
    /\ joinInput[0].uploadid # "None"
    /\ Len(Listed) # joinInput[0].count
    /\ commits = 0
    /\ \A t \in Branches : pc[t] = "EndThread"

MaxOf(S) == CHOOSE x \in S : \A y \in S : y <= x

\* C29: when run() returns after the completions of all submitted parts,
\* next is the larger of the next it started with and 1 + the largest
\* submitted part.
C29_NextIsPastLargestSubmitted ==
    \A t \in Branches :
        (pc[t] = "Branch" /\ outcome[t] = "returned" /\ done[t] # {}) =>
            state[t].next =
                MaxOf({WithRange(input[t], t).next,
                       1 + MaxOf({d[1] : d \in done[t]})})

\* The dicts of branch t that hold a checkpoint.
Checkpoints(t) ==
    {d \in {input[t], state[t], saved[t], output[t]} :
        HasKey(d, "next") /\ HasKey(d, "last")}

\* C30: a checkpoint has 1 <= next and last <= part_count, and for a slice
\* that was given parts, first part of the slice <= next <= last + 1.
C30_CheckpointWithinBounds ==
    \A t \in Branches : \A d \in Checkpoints(t) :
        /\ 1 <= d.next
        /\ d.last <= d.count
        /\ FirstOfSlice(d.count, t) <= LastOfSlice(d.count, t) =>
               /\ FirstOfSlice(d.count, t) <= d.next
               /\ d.next <= d.last + 1

\* A slice with two parts has returned its checkpoint with both uploaded.
C30_Witness ==
    \E t \in Branches :
        /\ pc[t] = "Branch"
        /\ output[t] \in Checkpoints(t)
        /\ output[t].last > output[t].next
        /\ \A p \in output[t].next .. output[t].last : p \in uploaded

====
